---- MODULE Spec2Model ----
(***************************************************************************)
(* The card editor's editable-document core: the CardEditor component's   *)
(* undo/redo history (activeCard, history, historyIndex) and the Dockbar's *)
(* debounced mutation pipeline that feeds it; the toolbar's Undo and Redo   *)
(* buttons as last rendered; the VirtualizedList component's window of    *)
(* rendered items; the useClipboard hook; the Dockbar's tool selection;    *)
(* the zoom controls; the rich-text toolbar's font size command; and       *)
(* UnifiedPanelButtons' handleAsyncAction. The components share no state:  *)
(* each has its own specification, with the others at rest.                *)
(*                                                                         *)
(* React specifics that the model keeps:                                   *)
(*  - a handler created by useCallback reads the state of the render that  *)
(*    created it (its closure), not the state at the time it runs;         *)
(*  - CardEditor.updateCard has deps [activeCard, history, historyIndex],  *)
(*    so every state change gives it a new identity, and the Dockbar's     *)
(*    useMemo then creates a new debounced function; the timer of the      *)
(*    previous debounced function is not cleared and still fires the       *)
(*    updateCard closure it was created with.                              *)
(***************************************************************************)
EXTENDS Integers, Sequences, FiniteSets, TLC

\* ---------------------------------------------------------------- bounds
\* Number of user interactions (clicks, slider moves, key presses) that a
\* behaviour handles; timers fire without counting against it.
MaxEvents == 5

\* VirtualizedList inputs: number of items, item and container heights in
\* pixels, and the scroll offsets a scroll event may report.
MaxItems == 6
MaxItemHeight == 3
MaxContainerHeight == 4
MaxScrollTop == 8

\* useClipboard: number of copyToClipboard / pasteFromClipboard calls that
\* a behaviour makes.
MaxCalls == 3

\* Dockbar: number of selectTool calls that a behaviour makes.
MaxSelections == 4

\* Zoom: number of clicks on the zoom controls that a behaviour makes.
MaxZoomEvents == 8

\* Zoom levels are counted in quarters (0.25 is 1, 1.0 is 4, 3.0 is 12):
\* every level the controls produce is a multiple of 0.25, which a double
\* holds exactly, so the sums and comparisons are exact.
ZoomInitial == 4
ZoomStep == 1
ZoomFloor == 1
ZoomCap == 12

\* Rich-text toolbar: the pixel sizes passed to executeCommand('fontSize')
\* range over -MaxPixelSize..MaxPixelSize.
MaxPixelSize == 64

\* The smallest and largest HTML font size, and the pixels per HTML size.
HtmlSizeMin == 1
HtmlSizeMax == 7
PixelsPerHtmlSize == 4

\* UnifiedPanelButtons: number of handleAsyncAction calls that a behaviour
\* makes.
MaxAsyncCalls == 3

\* The default of the overscan prop.
DefaultOverscan == 5

VARIABLES
    activeCard,     \* CardEditor state: the card shown by the preview
    history,        \* CardEditor state: the snapshots, oldest first
    historyIndex,   \* CardEditor state: 0-based cursor into history
    timers,         \* pending setTimeout callbacks of debounced functions,
                    \* in the order in which they will fire
    events,         \* user interactions handled so far
    toolbar,        \* CompactToolbar as last rendered: the disabled
                    \* attribute of its Undo and Redo buttons
    items,          \* VirtualizedList prop: the list's items
    itemHeight,     \* VirtualizedList prop
    containerHeight,\* VirtualizedList prop
    overscan,       \* VirtualizedList prop
    scrollTop,      \* VirtualizedList state
    isCopying,      \* useClipboard state
    isPasting,      \* useClipboard state
    clipboardCalls, \* useClipboard: the calls made so far, each with what
                    \* it has done (toasts shown, returned or thrown)
    isExpanded,     \* Dockbar state
    activeTool,     \* Dockbar state
    lastUsedTools,  \* Dockbar state
    selections,     \* the tool ids passed to selectTool so far, oldest first
    zoomLevel,      \* CardEditor / App state, in quarters
    zoomBefore,     \* zoomLevel as it was before the last zoom event
    zoomEvents,     \* clicks on the zoom controls handled so far
    editorRef,      \* EditorProvider: editorRef.current, "null" or "div"
    loading,        \* UnifiedPanelButtons state.loading: action id -> boolean
    errors,         \* UnifiedPanelButtons state.errors: action id -> string
    asyncCalls,     \* the handleAsyncAction calls made so far: action id,
                    \* and whether the call is running, returned or threw
    fontSizeCommand \* the last executeCommand('fontSize', value) that got to
                    \* the platform: value, and the size string handed to
                    \* document.execCommand

editorVars == <<activeCard, history, historyIndex, timers, events, toolbar>>
listVars == <<items, itemHeight, containerHeight, overscan, scrollTop>>
clipboardVars == <<isCopying, isPasting, clipboardCalls>>
vars == <<activeCard, history, historyIndex, timers, events, toolbar,
          items, itemHeight, containerHeight, overscan, scrollTop,
          isCopying, isPasting, clipboardCalls,
          isExpanded, activeTool, lastUsedTools, selections,
          zoomLevel, zoomBefore, zoomEvents,
          editorRef, loading, errors, asyncCalls, fontSizeCommand>>
panelVars == <<loading, errors, asyncCalls>>
richTextVars == <<editorRef, fontSizeCommand>>
zoomVars == <<zoomLevel, zoomBefore, zoomEvents>>
dockVars == <<isExpanded, activeTool, lastUsedTools, selections>>

\* The components do not share state: what each one's steps leave alone.
outsideEditor ==
    <<listVars, clipboardVars, dockVars, zoomVars, richTextVars, panelVars>>
outsideList ==
    <<editorVars, clipboardVars, dockVars, zoomVars, richTextVars, panelVars>>
outsideClipboard ==
    <<editorVars, listVars, dockVars, zoomVars, richTextVars, panelVars>>
outsideDock ==
    <<editorVars, listVars, clipboardVars, zoomVars, richTextVars, panelVars>>
outsideZoom ==
    <<editorVars, listVars, clipboardVars, dockVars, richTextVars, panelVars>>
outsideRichText ==
    <<editorVars, listVars, clipboardVars, dockVars, zoomVars, panelVars>>
outsidePanel ==
    <<editorVars, listVars, clipboardVars, dockVars, zoomVars, richTextVars>>

\* ------------------------------------------------------------ documents
\* The fields of CardData the model follows: id (set from the clock by
\* createDefaultCard), one text field and one numeric field.
\* Partial<CardData> values passed to updateCard by the UI.
Updates ==
    { [title |-> "Business Card"],
      [title |-> "Modern Card"],
      [rotation |-> 90] }

\* Milliseconds the clock may advance between two consecutive statements.
Ticks == {0, 1}

createDefaultCard(now) ==
    [id |-> now, title |-> "Modern Card", rotation |-> 0]

\* The object spread { ...a, ...b }: one-level merge, b's fields win.
Spread(a, b) ==
    [f \in (DOMAIN a) \cup (DOMAIN b) |-> IF f \in DOMAIN b THEN b[f] ELSE a[f]]

\* Array.prototype.slice(0, n) on a 1-based sequence.
Slice(s, n) == SubSeq(s, 1, IF n < Len(s) THEN n ELSE Len(s))

\* history[i] with the code's 0-based index.
At(h, i) == h[i + 1]

\* ------------------------------------------------------------- closures
\* What a callback created in the current render has captured.
Closure ==
    [activeCard |-> activeCard, history |-> history, historyIndex |-> historyIndex]

\* Mutant of updateCard: the new cursor is the new length, not length - 1.
updateCard_CursorPastEnd(c, updates) ==
    LET newCard == Spread(c.activeCard, updates)
        newHistory == Append(Slice(c.history, c.historyIndex + 1), newCard)
    IN [activeCard |-> newCard,
        history |-> newHistory,
        historyIndex |-> Len(newHistory)]

\* Mutant of updateCard: the spread is written { ...updates, ...activeCard },
\* so the card's old fields win over the update's.
updateCard_SpreadReversed(c, updates) ==
    LET newCard == Spread(updates, c.activeCard)
        newHistory == Append(Slice(c.history, c.historyIndex + 1), newCard)
    IN [activeCard |-> newCard,
        history |-> newHistory,
        historyIndex |-> Len(newHistory) - 1]

\* CardEditor.updateCard run in closure c: the values it hands to
\* setActiveCard, setHistory and setHistoryIndex.
updateCard(c, updates) ==
    LET newCard == Spread(c.activeCard, updates)
        newHistory == Append(Slice(c.history, c.historyIndex + 1), newCard)
    IN [activeCard |-> newCard,
        history |-> newHistory,
        historyIndex |-> Len(newHistory) - 1]

canUndo == historyIndex > 0
canRedo == historyIndex < Len(history) - 1

\* Mutant of CompactToolbar: the Redo button reads canUndo.
CompactToolbar_RedoReadsCanUndo ==
    [undoDisabled |-> ~canUndo, redoDisabled |-> ~canUndo]

\* What CompactToolbar renders from the canUndo and canRedo props:
\* disabled={!canUndo} on Undo, disabled={!canRedo} on Redo.
CompactToolbar ==
    [undoDisabled |-> ~canUndo, redoDisabled |-> ~canRedo]

\* Mutant of undo: the canUndo guard is missing, the cursor always moves
\* (a read before the first entry leaves the card as it is).
undo_NoBoundaryCheck(c) ==
    [activeCard |-> IF c.historyIndex > 0
                    THEN At(c.history, c.historyIndex - 1)
                    ELSE c.activeCard,
     history |-> c.history,
     historyIndex |-> c.historyIndex - 1]

\* CardEditor.undo run in closure c (handleUndo has the same body).
undo(c) ==
    IF c.historyIndex > 0
    THEN [activeCard |-> At(c.history, c.historyIndex - 1),
          history |-> c.history,
          historyIndex |-> c.historyIndex - 1]
    ELSE c

\* Mutant of redo: the card is read at the old cursor, history[historyIndex].
redo_ReadsOldCursor(c) ==
    IF c.historyIndex < Len(c.history) - 1
    THEN [activeCard |-> At(c.history, c.historyIndex),
          history |-> c.history,
          historyIndex |-> c.historyIndex + 1]
    ELSE c

\* CardEditor.redo run in closure c (handleRedo has the same body).
redo(c) ==
    IF c.historyIndex < Len(c.history) - 1
    THEN [activeCard |-> At(c.history, c.historyIndex + 1),
          history |-> c.history,
          historyIndex |-> c.historyIndex + 1]
    ELSE c

\* ------------------------------------------------------------- debounce
\* A pending timer: the closure of the rawUpdateCard its debounced function
\* wraps, the arguments it will pass, and whether that debounced function is
\* still the one the Dockbar holds (current) or one a re-render replaced.
Timer(c, updates) == [closure |-> c, updates |-> updates, current |-> TRUE]

\* useMemo(() => debounce(rawUpdateCard, 200), [rawUpdateCard]): after a
\* state change rawUpdateCard is a new function, the Dockbar holds a new
\* debounced function, and timers of earlier ones stay scheduled.
Rerender(ts) == [i \in 1..Len(ts) |-> [ts[i] EXCEPT !.current = FALSE]]

HasCurrent(ts) == Len(ts) > 0 /\ ts[Len(ts)].current

\* debounce(fn, wait) called with updates: the pending batch of this
\* debounced function, if any, is merged with the new updates and its
\* deadline is reset (the timer moves to the back); else a batch is started.
debouncedCall(ts, c, updates) ==
    IF HasCurrent(ts)
    THEN Append(SubSeq(ts, 1, Len(ts) - 1),
                Timer(c, Spread(ts[Len(ts)].updates, updates)))
    ELSE Append(ts, Timer(c, updates))

\* ------------------------------------------------------------------ Init
\* useState(createDefaultCard()) and useState([createDefaultCard()]):
\* two calls, each reading the clock (Date.now(), taken as 0 at the first).
EditorInit ==
    \E dt \in Ticks :
        /\ activeCard = createDefaultCard(0)
        /\ history = <<createDefaultCard(0 + dt)>>
        /\ historyIndex = 0
        /\ timers = <<>>
        /\ events = 0
        /\ toolbar = CompactToolbar

\* VirtualizedList mounted with the given props: useState(0) for scrollTop.
ListMount(its, ih, ch, os) ==
    /\ items = its
    /\ itemHeight = ih
    /\ containerHeight = ch
    /\ overscan = os
    /\ scrollTop = 0

\* The editor, beside an empty list that is never scrolled.
\* An empty list that is never scrolled.
ListIdle == ListMount(<<>>, 1, 0, DefaultOverscan)

\* useClipboard: useState(false) twice, no call made yet.
ClipboardInit ==
    /\ isCopying = FALSE
    /\ isPasting = FALSE
    /\ clipboardCalls = <<>>

\* Dockbar: useState(true), useState("style"), useState([]).
DockInit ==
    /\ isExpanded = TRUE
    /\ activeTool = "style"
    /\ lastUsedTools = <<>>
    /\ selections = <<>>

\* useState(1.0) for zoomLevel.
ZoomInit ==
    /\ zoomLevel = ZoomInitial
    /\ zoomBefore = ZoomInitial
    /\ zoomEvents = 0

\* EditorProvider before its first commit: useRef(null), no command yet.
RichTextInit ==
    /\ editorRef = "null"
    /\ fontSizeCommand = [value |-> <<>>, htmlSize |-> <<>>]

\* UnifiedPanelButtons: useState({ loading: {}, errors: {} }).
PanelInit ==
    /\ loading = <<>>
    /\ errors = <<>>
    /\ asyncCalls = <<>>

\* All components but the card editor and the list, in their initial
\* states.
WidgetsInit ==
    ClipboardInit /\ DockInit /\ ZoomInit /\ RichTextInit /\ PanelInit

\* The editor, beside the other components in their initial states.
Init == EditorInit /\ ListIdle /\ WidgetsInit

\* --------------------------------------------------------------- actions
\* React applies the three setState calls of one handler together and
\* re-renders: the Dockbar gets a new rawUpdateCard.
Commit(c, updates, ts) ==
    LET r == updateCard(c, updates)
    IN /\ activeCard' = r.activeCard
       /\ history' = r.history
       /\ historyIndex' = r.historyIndex
       /\ timers' = Rerender(ts)
       /\ toolbar' = CompactToolbar'
       /\ UNCHANGED outsideEditor

\* updateCard called by the current render's own controls (toolbar font,
\* size and alignment handlers, template tiles, generateRandomCard).
CallUpdateCard(updates) ==
    /\ events < MaxEvents
    /\ events' = events + 1
    /\ Commit(Closure, updates, timers)

\* Mutant of DockbarUpdateImmediate: the pending batch is flushed into the
\* immediate commit instead of being left alone.
DockbarUpdateImmediate_FlushesPending(updates) ==
    /\ events < MaxEvents
    /\ events' = events + 1
    /\ IF HasCurrent(timers)
       THEN Commit(Closure, Spread(timers[Len(timers)].updates, updates),
                   SubSeq(timers, 1, Len(timers) - 1))
       ELSE Commit(Closure, updates, timers)

\* Dockbar.updateCard(updates, true).
DockbarUpdateImmediate(updates) ==
    /\ events < MaxEvents
    /\ events' = events + 1
    /\ Commit(Closure, updates, timers)

\* Mutant of DockbarUpdateDeferred: a leading-edge debounce, which calls
\* rawUpdateCard at once.
DockbarUpdateDeferred_Leading(updates) ==
    /\ events < MaxEvents
    /\ events' = events + 1
    /\ Commit(Closure, updates, timers)

\* Dockbar.updateCard(updates, false).
DockbarUpdateDeferred(updates) ==
    /\ events < MaxEvents
    /\ events' = events + 1
    /\ timers' = debouncedCall(timers, Closure, updates)
    /\ UNCHANGED <<activeCard, history, historyIndex, toolbar>>
    /\ UNCHANGED outsideEditor

\* The earliest pending timer fires: its debounced function calls the
\* rawUpdateCard it wraps with the batched arguments.
TimerFire ==
    /\ Len(timers) > 0
    /\ Commit(Head(timers).closure, Head(timers).updates, Tail(timers))
    /\ UNCHANGED events

\* Mutant of handleUndo: the undone entry is also dropped from history.
handleUndo_DropsEntry ==
    IF canUndo
    THEN /\ events < MaxEvents
         /\ events' = events + 1
         /\ historyIndex' = historyIndex - 1
         /\ activeCard' = At(history, historyIndex - 1)
         /\ history' = Slice(history, historyIndex)
         /\ timers' = Rerender(timers)
         /\ toolbar' = CompactToolbar'
         /\ UNCHANGED outsideEditor
    ELSE UNCHANGED vars

handleUndo ==
    IF canUndo
    THEN /\ events < MaxEvents
         /\ events' = events + 1
         /\ historyIndex' = historyIndex - 1
         /\ activeCard' = At(history, historyIndex - 1)
         /\ history' = history
         /\ timers' = Rerender(timers)
         /\ toolbar' = CompactToolbar'
         /\ UNCHANGED outsideEditor
    ELSE UNCHANGED vars

handleRedo ==
    IF canRedo
    THEN /\ events < MaxEvents
         /\ events' = events + 1
         /\ historyIndex' = historyIndex + 1
         /\ activeCard' = At(history, historyIndex + 1)
         /\ history' = history
         /\ timers' = Rerender(timers)
         /\ toolbar' = CompactToolbar'
         /\ UNCHANGED outsideEditor
    ELSE UNCHANGED vars

Next ==
    \/ \E u \in Updates : CallUpdateCard(u)
    \/ \E u \in Updates : DockbarUpdateImmediate(u)
    \/ \E u \in Updates : DockbarUpdateDeferred(u)
    \/ TimerFire
    \/ handleUndo
    \/ handleRedo

Spec == Init /\ [][Next]_vars

\* The event loop runs a timer callback whose delay has elapsed: a pending
\* timer does not stay pending forever.
FairSpec == Spec /\ WF_vars(TimerFire)

\* ------------------------------------------------------ VirtualizedList
Max(a, b) == IF a > b THEN a ELSE b
Min(a, b) == IF a < b THEN a ELSE b

\* Math.floor(a / b) and Math.ceil(a / b) for an integer a and b > 0.
Floor(a, b) == a \div b
Ceil(a, b) == -((-a) \div b)

\* Mutant of visibleRange: the end of the window is rounded down.
visibleRange_EndRoundedDown ==
    [start |-> Max(0, Floor(scrollTop, itemHeight) - overscan),
     end   |-> Min(Len(items),
                   Floor(scrollTop + containerHeight, itemHeight) + overscan)]

\* The useMemo that computes { start, end } from the props and scrollTop.
visibleRange ==
    [start |-> Max(0, Floor(scrollTop, itemHeight) - overscan),
     end   |-> Min(Len(items),
                   Ceil(scrollTop + containerHeight, itemHeight) + overscan)]

\* The values the overscan prop takes: none, one row, or the default.
Overscans == {0, 1, DefaultOverscan}

\* A list of n items; item number i (0-based) is labelled i + 1.
Items(n) == [i \in 1..n |-> i]

\* The list mounted with any props within the bounds, beside the editor
\* in its initial state.
ListInit ==
    /\ EditorInit
    /\ WidgetsInit
    /\ \E n \in 0..MaxItems, ih \in 1..MaxItemHeight,
          ch \in 0..MaxContainerHeight, os \in Overscans :
            ListMount(Items(n), ih, ch, os)

\* onScroll: setScrollTop(e.currentTarget.scrollTop).
handleScroll(st) ==
    /\ scrollTop' = st
    /\ UNCHANGED <<items, itemHeight, containerHeight, overscan>>
    /\ UNCHANGED outsideList

\* Array.prototype.slice(a, b) for 0 <= a and 0 <= b on a 1-based
\* sequence: empty when a is not before the (clamped) end.
SliceRange(s, a, b) ==
    LET hi == Min(b, Len(s))
    IN IF a >= hi THEN <<>> ELSE SubSeq(s, a + 1, hi)

visibleItems == SliceRange(items, visibleRange.start, visibleRange.end)

\* Mutant of renderCalls: renderItem gets the position in the slice.
renderCalls_SliceIndex ==
    [k \in 1..Len(visibleItems) |->
        [item |-> visibleItems[k], index |-> k - 1]]

\* visibleItems.map((item, index) => renderItem(item, start + index)):
\* the calls of renderItem made by one render, in order.
renderCalls ==
    [k \in 1..Len(visibleItems) |->
        [item |-> visibleItems[k], index |-> visibleRange.start + (k - 1)]]

\* The height of the inner div and the translateY of the rendered block.
totalHeight == Len(items) * itemHeight
offsetY == visibleRange.start * itemHeight

\* The largest scrollTop the scroll container can report: its content
\* (the inner div, totalHeight high) minus its own height, and never < 0.
maxScrollTop == Max(0, totalHeight - containerHeight)

\* The parent renders the list again with another items array; scrollTop
\* is component state and keeps its value until the next scroll event.
ItemsChange(n) ==
    /\ items' = Items(n)
    /\ UNCHANGED <<itemHeight, containerHeight, overscan, scrollTop>>
    /\ UNCHANGED outsideList

ListNext ==
    \/ \E st \in 0..Min(MaxScrollTop, maxScrollTop) : handleScroll(st)
    \/ \E n \in 0..MaxItems : ItemsChange(n)

ListSpec == ListInit /\ [][ListNext]_vars

\* --------------------------------------------------------- useClipboard
\* A call of copyToClipboard ("copy") or pasteFromClipboard ("paste")
\* that has run up to its await.
ClipboardCall(kind) ==
    [kind |-> kind, result |-> "pending", status |-> "awaiting", toasts |-> <<>>]

SuccessToast == [title |-> "Copied to clipboard", variant |-> "default"]
CopyFailedToast == [title |-> "Copy failed", variant |-> "destructive"]
PasteFailedToast == [title |-> "Paste failed", variant |-> "destructive"]

\* The call after its await: the try block's rest, or the catch block,
\* which shows its toast and re-throws.
Settled(call, ok) ==
    IF ok
    THEN [call EXCEPT !.result = "ok", !.status = "returned",
                      !.toasts = IF call.kind = "copy"
                                 THEN Append(@, SuccessToast) ELSE @]
    ELSE [call EXCEPT !.result = "failed", !.status = "thrown",
                      !.toasts = Append(@, IF call.kind = "copy"
                                           THEN CopyFailedToast
                                           ELSE PasteFailedToast)]

\* copyToClipboard(text) up to the await of navigator.clipboard.writeText.
copyToClipboard ==
    /\ Len(clipboardCalls) < MaxCalls
    /\ isCopying' = TRUE
    /\ clipboardCalls' = Append(clipboardCalls, ClipboardCall("copy"))
    /\ UNCHANGED isPasting
    /\ UNCHANGED outsideClipboard

\* pasteFromClipboard() up to the await of navigator.clipboard.readText.
pasteFromClipboard ==
    /\ Len(clipboardCalls) < MaxCalls
    /\ isPasting' = TRUE
    /\ clipboardCalls' = Append(clipboardCalls, ClipboardCall("paste"))
    /\ UNCHANGED isCopying
    /\ UNCHANGED outsideClipboard

\* Mutant of copyToClipboardResume: setIsCopying(false) sits at the end of
\* the try block, not in a finally.
copyToClipboardResume_NoFinally(i, ok) ==
    /\ i \in DOMAIN clipboardCalls
    /\ clipboardCalls[i].kind = "copy"
    /\ clipboardCalls[i].status = "awaiting"
    /\ clipboardCalls' = [clipboardCalls EXCEPT ![i] = Settled(@, ok)]
    /\ isCopying' = IF ok THEN FALSE ELSE isCopying
    /\ UNCHANGED isPasting
    /\ UNCHANGED outsideClipboard

\* writeText settles (ok: resolved, else rejected) and call i runs on to
\* its end: toast, re-throw on failure, and the finally block.
copyToClipboardResume(i, ok) ==
    /\ i \in DOMAIN clipboardCalls
    /\ clipboardCalls[i].kind = "copy"
    /\ clipboardCalls[i].status = "awaiting"
    /\ clipboardCalls' = [clipboardCalls EXCEPT ![i] = Settled(@, ok)]
    /\ isCopying' = FALSE
    /\ UNCHANGED isPasting
    /\ UNCHANGED outsideClipboard

\* readText settles and call i runs on to its end.
pasteFromClipboardResume(i, ok) ==
    /\ i \in DOMAIN clipboardCalls
    /\ clipboardCalls[i].kind = "paste"
    /\ clipboardCalls[i].status = "awaiting"
    /\ clipboardCalls' = [clipboardCalls EXCEPT ![i] = Settled(@, ok)]
    /\ isPasting' = FALSE
    /\ UNCHANGED isCopying
    /\ UNCHANGED outsideClipboard

ClipboardNext ==
    \/ copyToClipboard
    \/ pasteFromClipboard
    \/ \E i \in 1..MaxCalls, ok \in BOOLEAN : copyToClipboardResume(i, ok)
    \/ \E i \in 1..MaxCalls, ok \in BOOLEAN : pasteFromClipboardResume(i, ok)

ClipboardSpecInit == EditorInit /\ ListIdle /\ WidgetsInit

ClipboardSpec == ClipboardSpecInit /\ [][ClipboardNext]_vars

\* ---------------------------------------------------------- Dockbar tools
\* The ids of DOCK_TOOLS, in order.
DOCK_TOOLS == <<"style", "gradient", "shadow", "text", "effects", "presets">>

ToolIds == {DOCK_TOOLS[k] : k \in DOMAIN DOCK_TOOLS}

\* prev.filter(t => t !== toolId)
Without(s, toolId) == SelectSeq(s, LAMBDA t : t # toolId)

\* Mutant of selectTool: the id is put in front without being filtered out
\* of the previous list.
selectTool_NoFilter(toolId) ==
    /\ Len(selections) < MaxSelections
    /\ selections' = Append(selections, toolId)
    /\ activeTool' = toolId
    /\ lastUsedTools' = Slice(<<toolId>> \o lastUsedTools, 3)
    /\ isExpanded' = IF ~isExpanded THEN TRUE ELSE isExpanded
    /\ UNCHANGED outsideDock

\* selectTool(toolId), from a dock button, a keyboard shortcut or a panel.
selectTool(toolId) ==
    /\ Len(selections) < MaxSelections
    /\ selections' = Append(selections, toolId)
    /\ activeTool' = toolId
    /\ lastUsedTools' = Slice(<<toolId>> \o Without(lastUsedTools, toolId), 3)
    /\ isExpanded' = IF ~isExpanded THEN TRUE ELSE isExpanded
    /\ UNCHANGED outsideDock

\* The expand / collapse button: setIsExpanded(!isExpanded).
toggleExpanded ==
    /\ isExpanded' = ~isExpanded
    /\ UNCHANGED <<activeTool, lastUsedTools, selections>>
    /\ UNCHANGED outsideDock

\* The close button of the open panel: setIsExpanded(false).
closePanel ==
    /\ isExpanded
    /\ isExpanded' = FALSE
    /\ UNCHANGED <<activeTool, lastUsedTools, selections>>
    /\ UNCHANGED outsideDock

DockNext ==
    \/ \E toolId \in ToolIds : selectTool(toolId)
    \/ toggleExpanded
    \/ closePanel

DockSpecInit == EditorInit /\ ListIdle /\ WidgetsInit

DockSpec == DockSpecInit /\ [][DockNext]_vars

\* ------------------------------------------------------------------ zoom
\* The values of the zoom select's options: 0.5, 0.75, 1.0, 1.5, 2.0.
ZoomPresets == {2, 3, 4, 6, 8}

\* onZoomChange, which is setZoomLevel.
onZoomChange(zoom) ==
    /\ zoomEvents < MaxZoomEvents
    /\ zoomEvents' = zoomEvents + 1
    /\ zoomBefore' = zoomLevel
    /\ zoomLevel' = zoom
    /\ UNCHANGED outsideZoom

\* Mutant of handleZoomIn: the Math.min is missing.
handleZoomIn_NoCap == onZoomChange(zoomLevel + ZoomStep)

\* Math.max(0.25, zoomLevel - 0.25)
handleZoomOut == onZoomChange(Max(ZoomFloor, zoomLevel - ZoomStep))

\* Math.min(3.0, zoomLevel + 0.25)
handleZoomIn == onZoomChange(Min(ZoomCap, zoomLevel + ZoomStep))

\* The select's onChange: parseFloat of the chosen option's value.
selectZoom(preset) == onZoomChange(preset)

ZoomNext ==
    \/ handleZoomOut
    \/ handleZoomIn
    \/ \E preset \in ZoomPresets : selectZoom(preset)

ZoomSpecInit == EditorInit /\ ListIdle /\ WidgetsInit

ZoomSpec == ZoomSpecInit /\ [][ZoomNext]_vars

\* ------------------------------------------------------ rich-text toolbar
\* Strings are sequences of one-character strings.
DigitChars == <<"0", "1", "2", "3", "4", "5", "6", "7", "8", "9">>

IsDigit(c) == \E d \in DOMAIN DigitChars : DigitChars[d] = c

DigitValue(c) == (CHOOSE d \in DOMAIN DigitChars : DigitChars[d] = c) - 1

\* Number.prototype.toString() of an integer.
RECURSIVE NatToString(_)
NatToString(n) ==
    IF n < 10
    THEN <<DigitChars[n + 1]>>
    ELSE NatToString(n \div 10) \o <<DigitChars[(n % 10) + 1]>>

toString(n) == IF n < 0 THEN <<"-">> \o NatToString(-n) ELSE NatToString(n)

\* parseInt(s) of a string that starts with an integer: an optional "-",
\* then the digits up to the first character that is not one.
RECURSIVE ParseDigits(_, _)
ParseDigits(s, acc) ==
    IF s = <<>> \/ ~IsDigit(Head(s))
    THEN acc
    ELSE ParseDigits(Tail(s), acc * 10 + DigitValue(Head(s)))

parseInt(s) ==
    IF s # <<>> /\ Head(s) = "-"
    THEN -ParseDigits(Tail(s), 0)
    ELSE ParseDigits(s, 0)

\* Mutant of htmlSizeOf: the Math.min(7, ...) is missing.
htmlSizeOf_NoUpperClamp(value) ==
    Max(HtmlSizeMin,
        Floor(parseInt(IF value = <<>> THEN toString(16) ELSE value),
              PixelsPerHtmlSize))

\* Math.min(7, Math.max(1, Math.floor(parseInt(value || '16') / 4)))
htmlSizeOf(value) ==
    Min(HtmlSizeMax,
        Max(HtmlSizeMin,
            Floor(parseInt(IF value = <<>> THEN toString(16) ELSE value),
                  PixelsPerHtmlSize)))

\* The values the toolbar's size select offers.
sizeOptions ==
    <<toString(12), toString(14), toString(16), toString(18), toString(24),
      toString(32)>>

\* The values passed to executeCommand('fontSize', value): any integer
\* pixel size as a string, or no value.
FontSizeValues ==
    {toString(v) : v \in (0 - MaxPixelSize)..MaxPixelSize} \cup {<<>>}

\* React attaches the contentEditable div to editorRef.
attachEditorRef ==
    /\ editorRef = "null"
    /\ editorRef' = "div"
    /\ UNCHANGED fontSizeCommand
    /\ UNCHANGED outsideRichText

\* executeCommand('fontSize', value), up to and including the call of
\* document.execCommand('fontSize', false, htmlSize.toString()); without a
\* mounted editor it returns at once.
executeCommandFontSize(value) ==
    /\ IF editorRef = "null"
       THEN UNCHANGED fontSizeCommand
       ELSE fontSizeCommand' =
              [value |-> value, htmlSize |-> toString(htmlSizeOf(value))]
    /\ UNCHANGED editorRef
    /\ UNCHANGED outsideRichText

RichTextNext ==
    \/ attachEditorRef
    \/ \E value \in FontSizeValues : executeCommandFontSize(value)

RichTextSpecInit == EditorInit /\ ListIdle /\ WidgetsInit

RichTextSpec == RichTextSpecInit /\ [][RichTextNext]_vars

\* ----------------------------------------------------- handleAsyncAction
\* The action ids passed to handleAsyncAction.
ActionIds == {"export", "share"}

\* How action() settles: it resolves, or it rejects (or throws) with an
\* Error that has a message, an Error with an empty message, or with a
\* value that is not an object (Promise.reject() rejects with undefined).
Outcomes ==
    { [kind |-> "resolved"],
      [kind |-> "rejected", reason |-> "Error", message |-> "Export failed"],
      [kind |-> "rejected", reason |-> "Error", message |-> ""],
      [kind |-> "rejected", reason |-> "undefined"] }

\* { ...rec, [key]: value }
SetKey(rec, key, value) ==
    [k \in (DOMAIN rec) \cup {key} |-> IF k = key THEN value ELSE rec[k]]

\* error.message || 'Unknown error'
MessageOf(outcome) ==
    IF outcome.message # "" THEN outcome.message ELSE "Unknown error"

\* handleAsyncAction(actionId, action) up to the await of action().
handleAsyncAction(actionId) ==
    /\ Len(asyncCalls) < MaxAsyncCalls
    /\ loading' = SetKey(loading, actionId, TRUE)
    /\ asyncCalls' = Append(asyncCalls, [actionId |-> actionId, status |-> "running"])
    /\ UNCHANGED errors
    /\ UNCHANGED outsidePanel

\* action() of call i settles and the call runs on to its end: the try
\* block's setState or the catch block's, then the finally block's. Reading
\* error.message of undefined throws inside the catch block: errors is not
\* set and the TypeError leaves the function after the finally block.
handleAsyncActionResume(i, outcome) ==
    /\ i \in DOMAIN asyncCalls
    /\ asyncCalls[i].status = "running"
    /\ LET actionId == asyncCalls[i].actionId
       IN /\ errors' =
                IF outcome.kind = "resolved"
                THEN SetKey(errors, actionId, "")
                ELSE IF outcome.reason = "Error"
                     THEN SetKey(errors, actionId, MessageOf(outcome))
                     ELSE errors
          /\ loading' = SetKey(loading, actionId, FALSE)
          /\ asyncCalls' =
                [asyncCalls EXCEPT ![i].status =
                    IF outcome.kind = "rejected" /\ outcome.reason = "undefined"
                    THEN "threw" ELSE "returned"]
    /\ UNCHANGED outsidePanel

PanelNext ==
    \/ \E actionId \in ActionIds : handleAsyncAction(actionId)
    \/ \E i \in 1..MaxAsyncCalls, outcome \in Outcomes :
          handleAsyncActionResume(i, outcome)

PanelSpecInit == EditorInit /\ ListIdle /\ WidgetsInit

PanelSpec == PanelSpecInit /\ [][PanelNext]_vars

\* ------------------------------------------------------ steps, by kind
\* A commit made synchronously by a handler of the current render.
DirectCommitStep ==
    \/ \E u \in Updates : CallUpdateCard(u)
    \/ \E u \in Updates : DockbarUpdateImmediate(u)

\* Any call of CardEditor.updateCard, whichever path triggers it.
CommitStep == DirectCommitStep \/ TimerFire

\* ------------------------------------------------------------------- C1
\* C1: in every reachable state the history is non-empty and the cursor
\* is a valid index into it: len(history) >= 1 and
\* 0 <= historyIndex < len(history).
C1_HistoryBounds ==
    /\ Len(history) >= 1
    /\ 0 <= historyIndex
    /\ historyIndex < Len(history)

\* Reached by a timer-fired commit, a direct commit and an undo: three
\* entries with the cursor in the middle and nothing pending.
C1_Witness ==
    /\ Len(history) = 3
    /\ historyIndex = 1
    /\ timers = <<>>
    /\ events = 4

\* ------------------------------------------------------------------- C2
\* C2: in every reachable state the card shown to the rendering layer is
\* the history entry under the cursor: activeCard = history[historyIndex].
C2_ActiveIsCurrent == activeCard = At(history, historyIndex)

\* ------------------------------------------------------------------- C3
\* C3: a deferred commit is applied to the history as it is when the timer
\* fires: the fired timer merges its batch onto the then-current card and
\* truncates at the then-current cursor.
C3_FireAppliesToCurrent ==
    [][TimerFire =>
          LET r == updateCard(Closure, Head(timers).updates)
          IN /\ activeCard' = r.activeCard
             /\ history' = r.history
             /\ historyIndex' = r.historyIndex]_vars

\* ------------------------------------------------------------------- C4
\* C4: an immediate update cancels the pending deferred batch: right after
\* Dockbar.updateCard(updates, true) no timer is left to fire.
C4_ImmediateCancelsPending ==
    [][(\E u \in Updates : DockbarUpdateImmediate(u)) => timers' = <<>>]_vars

\* ------------------------------------------------------------------- C5
\* C5: at most one scheduled commit timer exists in every reachable state.
C5_AtMostOneTimer == Len(timers) <= 1

\* ------------------------------------------------------------------- C6
\* C6: deferred calls of one quiet window produce one commit: a deferred
\* call that arrives while an earlier deferred call's timer is still pending
\* (before the previous deadline) schedules no second commit.
C6_OneCommitPerWindow ==
    [][(Len(timers) > 0 /\ \E u \in Updates : DockbarUpdateDeferred(u))
          => Len(timers') = Len(timers)]_vars

\* ------------------------------------------------------------------- C7
\* C7: a deferred update arriving while a batch is pending is shallow-merged
\* into it: the batch that will be committed carries the pending batch's
\* fields overwritten by the new update's fields.
C7_WindowMerges ==
    [][\A u \in Updates :
          (Len(timers) > 0 /\ DockbarUpdateDeferred(u))
             => timers'[Len(timers')].updates
                   = Spread(timers[Len(timers)].updates, u)]_vars

\* ------------------------------------------------------------------- C8
\* C8: once no further calls arrive (a behaviour handles at most MaxEvents
\* interactions), every pending batch is eventually committed and no batch
\* stays pending; the firing commits the batch (the new current card, which
\* is the new last entry, carries every field of the batch) and clears that
\* timer, so the same batch cannot fire a second time.
C8_PendingCommittedOnce ==
    /\ (Len(timers) > 0) ~> (Len(timers) = 0)
    /\ [][TimerFire =>
             LET batch == Head(timers).updates
             IN /\ Len(timers') = Len(timers) - 1
                /\ \A f \in DOMAIN batch : activeCard'[f] = batch[f]
                /\ history'[Len(history')] = activeCard'
                /\ historyIndex' = Len(history') - 1]_vars

\* Two deferred calls and nothing else, then one firing: two interactions,
\* one new entry carrying both fields, nothing pending.
C8_Witness ==
    /\ events = 2
    /\ timers = <<>>
    /\ Len(history) = 2
    /\ historyIndex = 1
    /\ activeCard.title = "Business Card"
    /\ activeCard.rotation = 90

\* ------------------------------------------------------------------- C9
\* C9: every commit truncates history to history[0..historyIndex], appends
\* the new card and moves the cursor to the new last index, so that canRedo
\* is false right after it.
C9_CommitTruncatesAtCursor ==
    [][CommitStep =>
          /\ history' = Append(Slice(history, historyIndex + 1), activeCard')
          /\ historyIndex' = Len(history') - 1
          /\ ~canRedo']_vars

\* ------------------------------------------------------------------ C10
\* C10: for every commit, whichever path triggers it, the entries at
\* positions 0..historyIndex of the state before it are still present,
\* unchanged and at the same positions, in the state after it.
C10_CommitKeepsPrefix ==
    [][CommitStep =>
          \A i \in 0..historyIndex :
              /\ i < Len(history')
              /\ At(history', i) = At(history, i)]_vars

\* ------------------------------------------------------------------ C11
\* C11: a commit made with the cursor on the last entry (as it is after any
\* run of commits with no undo) moves the cursor up by exactly 1 and leaves
\* len(history) = historyIndex + 1.
C11_CommitAdvancesByOne ==
    [][(CommitStep /\ ~canRedo) =>
          /\ historyIndex' = historyIndex + 1
          /\ Len(history') = historyIndex' + 1]_vars

\* ------------------------------------------------------------------ C12
\* C12: from every reachable state and for every partial update p,
\* commit(p), undo(), redo() ends with the card, the history and the cursor
\* that the commit produced (and the undo in between did move away from
\* them); the wired handlers handleUndo and handleRedo do what undo and redo
\* compute.
C12_RoundTripHere ==
    \A p \in Updates :
        LET r == updateCard(Closure, p)
        IN /\ undo(r) # r
           /\ redo(undo(r)) = r

C12_NextIs(r) ==
    /\ activeCard' = r.activeCard
    /\ history' = r.history
    /\ historyIndex' = r.historyIndex

C12_CommitUndoRedo ==
    /\ []C12_RoundTripHere
    /\ [][handleUndo => C12_NextIs(undo(Closure))]_vars
    /\ [][handleRedo => C12_NextIs(redo(Closure))]_vars

\* Reached by commit, undo, redo: three interactions, the committed card
\* current again and still the last entry.
C12_Witness ==
    /\ events = 3
    /\ timers = <<>>
    /\ Len(history) = 2
    /\ historyIndex = 1
    /\ activeCard = At(history, 1)
    /\ activeCard.rotation = 90
    /\ activeCard.title = "Modern Card"

\* ------------------------------------------------------------------ C13
\* C13: at cursor 0 undo, and at the last index redo, change nothing: card,
\* history and cursor stay as they are, however often the call is repeated,
\* and the wired handlers cannot take a state-changing step there.
C13_BoundaryNoOps ==
    /\ ~canUndo =>
          /\ undo(Closure) = Closure
          /\ undo(undo(Closure)) = Closure
          /\ ~ENABLED (handleUndo /\ vars' # vars)
    /\ ~canRedo =>
          /\ redo(Closure) = Closure
          /\ redo(redo(Closure)) = Closure
          /\ ~ENABLED (handleRedo /\ vars' # vars)

\* Back on the first entry after a commit and an undo: undo is at its
\* boundary while redo is not.
C13_Witness ==
    /\ events = 2
    /\ Len(history) = 2
    /\ historyIndex = 0
    /\ ~canUndo
    /\ canRedo

\* ------------------------------------------------------------------ C14
\* C14: undo with cursor > 0 lowers the cursor by exactly 1, redo with
\* cursor < len(history) - 1 raises it by exactly 1, neither changes history;
\* every step that changes history is a commit.
C14_UndoRedoMoveCursorOnly ==
    /\ [][(handleUndo /\ canUndo) =>
             /\ historyIndex' = historyIndex - 1
             /\ history' = history]_vars
    /\ [][(handleRedo /\ canRedo) =>
             /\ historyIndex' = historyIndex + 1
             /\ history' = history]_vars
    /\ [][history' # history => CommitStep]_vars

\* Two commits, then two undos: three entries kept, cursor on the first.
C14_Witness ==
    /\ events = 4
    /\ timers = <<>>
    /\ Len(history) = 3
    /\ historyIndex = 0

\* ------------------------------------------------------------------ C15
\* C15: every commit(p) makes the current card the previous current card
\* with p's fields written over it: p's value for each field of p, the
\* previous value for every other field.
C15_CommitShallowMerge ==
    [][/\ \A u \in Updates :
             (CallUpdateCard(u) \/ DockbarUpdateImmediate(u))
                => activeCard' = Spread(activeCard, u)
       /\ TimerFire => activeCard' = Spread(activeCard, Head(timers).updates)
      ]_vars

\* ------------------------------------------------------------------ C16
\* C16: Dockbar.updateCard(p, true) commits within the call: history is cut
\* at the cursor and gets exactly one new last entry, the cursor points at
\* it, and that entry (the new current card) is the previous current card
\* overwritten with the fields of p only, whatever batch is pending.
C16_ImmediateCommitsOnlyP ==
    [][\A u \in Updates :
          DockbarUpdateImmediate(u) =>
             /\ activeCard' = Spread(activeCard, u)
             /\ history' = Append(Slice(history, historyIndex + 1), activeCard')
             /\ historyIndex' = Len(history') - 1]_vars

\* A deferred {title} still pending, superseded, right after an immediate
\* {rotation}: the new last entry has the rotation and not the title.
C16_Witness ==
    /\ events = 2
    /\ Len(timers) = 1
    /\ ~timers[1].current
    /\ timers[1].updates = [title |-> "Business Card"]
    /\ Len(history) = 2
    /\ historyIndex = 1
    /\ activeCard.title = "Modern Card"
    /\ activeCard.rotation = 90

\* ------------------------------------------------------------------ C17
\* C17: Dockbar.updateCard(p, false) returns without changing history, the
\* cursor or the current card, and adds at most one pending timer; with no
\* further user event, the three change only when a timer fires.
C17_DeferredLeavesHistory ==
    /\ [][\A u \in Updates :
             DockbarUpdateDeferred(u) =>
                /\ UNCHANGED <<activeCard, history, historyIndex>>
                /\ Len(timers') <= Len(timers) + 1
                /\ HasCurrent(timers')]_vars
    /\ [][(events' = events
            /\ <<activeCard, history, historyIndex>>'
                  # <<activeCard, history, historyIndex>>) => TimerFire]_vars

\* Right after one deferred call on the fresh editor: a batch is pending
\* and history still holds the seed entry only.
C17_Witness ==
    /\ events = 1
    /\ Len(timers) = 1
    /\ timers[1].current
    /\ timers[1].updates = [rotation |-> 90]
    /\ Len(history) = 1
    /\ historyIndex = 0
    /\ activeCard.rotation = 0

\* ------------------------------------------------------------------ C18
\* C18: right after construction history has one entry, the cursor is 0,
\* canUndo and canRedo are false, and the current card (activeCard) equals
\* the default card that seeds history[0].
C18_FreshHistory ==
    events = 0 =>
        /\ Len(history) = 1
        /\ historyIndex = 0
        /\ ~canUndo
        /\ ~canRedo
        /\ activeCard = At(history, 0)

\* ------------------------------------------------------------------ C19
\* C19: in every reachable state the Undo button is disabled exactly when
\* the cursor is 0 and the Redo button exactly when the cursor is at the
\* last entry; and, while the user can still act, a click on Undo (Redo)
\* moves the cursor exactly when the cursor is > 0 (< len(history) - 1),
\* which is what the handlers read as canUndo (canRedo).
C19_FlagsAndToolbar ==
    /\ toolbar.undoDisabled <=> ~(historyIndex > 0)
    /\ toolbar.redoDisabled <=> ~(historyIndex < Len(history) - 1)
    /\ events < MaxEvents =>
          /\ (ENABLED (handleUndo /\ historyIndex' # historyIndex))
                <=> historyIndex > 0
          /\ (ENABLED (handleRedo /\ historyIndex' # historyIndex))
                <=> historyIndex < Len(history) - 1

\* In the middle of a three-entry history both buttons are enabled.
C19_Witness ==
    /\ events = 3
    /\ Len(history) = 3
    /\ historyIndex = 1
    /\ ~toolbar.undoDisabled
    /\ ~toolbar.redoDisabled

\* ------------------------------------------------------------------ C20
\* Item i (0-based) occupies the pixels [i * itemHeight, (i + 1) *
\* itemHeight); the viewport shows [scrollTop, scrollTop + containerHeight).
\* The two half-open intervals share a pixel position.
IntersectsViewport(i) ==
    Max(i * itemHeight, scrollTop)
        < Min((i + 1) * itemHeight, scrollTop + containerHeight)

\* C20: whatever the props and the scroll offset, every item whose pixel
\* extent intersects the viewport has its index in the computed window
\* start <= i < end, so it is among the rendered items.
C20_VisibleItemsInRange ==
    \A i \in 0..(Len(items) - 1) :
        IntersectsViewport(i) =>
            /\ visibleRange.start <= i
            /\ i < visibleRange.end

\* Scrolled into the middle of a row, no overscan: the viewport [4, 7)
\* cuts items 1 and 2, both partly visible, and the window is exactly 1..2.
C20_Witness ==
    /\ Len(items) = 6
    /\ itemHeight = 3
    /\ containerHeight = 3
    /\ overscan = 0
    /\ scrollTop = 4
    /\ IntersectsViewport(1)
    /\ IntersectsViewport(2)
    /\ visibleRange = [start |-> 1, end |-> 3]

\* ------------------------------------------------------------------ C21
\* C21: in every state of the list the computed window satisfies
\* 0 <= start <= end <= items.length, also when scrollTop lies beyond the
\* total content height and when the list is empty.
C21_RangeWithinList ==
    /\ 0 <= visibleRange.start
    /\ visibleRange.start <= visibleRange.end
    /\ visibleRange.end <= Len(items)

\* ------------------------------------------------------------------ C22
\* C22: one render calls renderItem exactly once for each index i in
\* start..end-1 and for no other index, with the item items[i] of the full
\* list and the absolute index i; the rendered block is translated by
\* start * itemHeight pixels.
C22_RenderCallsMatchRange ==
    /\ \A i \in visibleRange.start..(visibleRange.end - 1) :
          /\ Cardinality({k \in DOMAIN renderCalls : renderCalls[k].index = i}) = 1
          /\ \A k \in DOMAIN renderCalls :
                renderCalls[k].index = i => renderCalls[k].item = items[i + 1]
    /\ \A k \in DOMAIN renderCalls :
          renderCalls[k].index \in visibleRange.start..(visibleRange.end - 1)
    /\ offsetY = visibleRange.start * itemHeight

\* Scrolled past the first row: the slice starts at index 1, so position
\* in the slice and absolute index differ.
C22_Witness ==
    /\ scrollTop = 4
    /\ itemHeight = 3
    /\ containerHeight = 3
    /\ overscan = 0
    /\ Len(items) = 6
    /\ renderCalls = <<[item |-> 2, index |-> 1], [item |-> 3, index |-> 2]>>
    /\ offsetY = 3

\* ------------------------------------------------------------------ C23
InFlight(kind) ==
    \E i \in DOMAIN clipboardCalls :
        clipboardCalls[i].kind = kind /\ clipboardCalls[i].status = "awaiting"

\* C23: isCopying is true in every state in which a copyToClipboard call
\* is still in flight, and isPasting in every state in which a
\* pasteFromClipboard call is, also when calls overlap and one of them
\* finishes before the others.
C23_FlagWhileInFlight ==
    /\ InFlight("copy") => isCopying
    /\ InFlight("paste") => isPasting

\* ------------------------------------------------------------------ C24
\* C24: once a copyToClipboard (pasteFromClipboard) call has ended and
\* none is in flight, isCopying (isPasting) is false, whether the clipboard
\* operation succeeded or failed; a call whose operation failed has shown
\* exactly one toast, a destructive one, and has thrown to its caller; a
\* copy call whose operation succeeded has shown exactly one toast, the
\* success toast, and has returned.
C24_CallEndsClean ==
    /\ ~InFlight("copy") => ~isCopying
    /\ ~InFlight("paste") => ~isPasting
    /\ \A i \in DOMAIN clipboardCalls :
          LET call == clipboardCalls[i]
          IN /\ call.result = "failed" =>
                  /\ call.status = "thrown"
                  /\ Len(call.toasts) = 1
                  /\ call.toasts[1].variant = "destructive"
             /\ (call.result = "ok" /\ call.kind = "copy") =>
                  /\ call.status = "returned"
                  /\ call.toasts = <<SuccessToast>>

\* One copy that failed and one paste that failed, both ended.
C24_Witness ==
    /\ Len(clipboardCalls) = 2
    /\ clipboardCalls[1].kind = "copy"
    /\ clipboardCalls[1].result = "failed"
    /\ clipboardCalls[2].kind = "paste"
    /\ clipboardCalls[2].result = "failed"
    /\ ~isCopying
    /\ ~isPasting

\* ------------------------------------------------------------------ C25
\* The distinct tool ids of a sequence of selections, most recently
\* selected first.
RECURSIVE RecentFirst(_)
RecentFirst(sel) ==
    IF sel = <<>>
    THEN <<>>
    ELSE LET last == sel[Len(sel)]
             rest == RecentFirst(SubSeq(sel, 1, Len(sel) - 1))
         IN <<last>> \o SelectSeq(rest, LAMBDA t : t # last)

\* C25: after any sequence of selectTool calls lastUsedTools has at most 3
\* elements, no duplicates, lists the tools most recently selected first
\* (the first three of them), and its head is activeTool; and every
\* selectTool call leaves the panel expanded.
C25_LastUsedTools ==
    /\ [](/\ Len(lastUsedTools) <= 3
          /\ \A j, k \in DOMAIN lastUsedTools :
                lastUsedTools[j] = lastUsedTools[k] => j = k
          /\ lastUsedTools = Slice(RecentFirst(selections), 3)
          /\ selections # <<>> => lastUsedTools[1] = activeTool)
    /\ [][(\E toolId \in ToolIds : selectTool(toolId)) => isExpanded']_vars

\* Four selections, one tool selected twice: the repeated tool moves to the
\* front and appears once.
C25_Witness ==
    /\ selections = <<"style", "text", "gradient", "text">>
    /\ lastUsedTools = <<"text", "gradient", "style">>
    /\ activeTool = "text"
    /\ isExpanded

\* ------------------------------------------------------------------ C26
\* C26: starting from 1.0, after any sequence of zoom-in, zoom-out and
\* preset selections zoomLevel stays within [0.25, 3.0]; zoom-out at 0.25
\* and zoom-in at 3.0 leave it unchanged; elsewhere they move it by 0.25.
C26_ZoomWithinRange ==
    /\ [](ZoomFloor <= zoomLevel /\ zoomLevel <= ZoomCap)
    /\ [][handleZoomOut =>
            zoomLevel' = IF zoomLevel = ZoomFloor
                         THEN zoomLevel ELSE zoomLevel - ZoomStep]_vars
    /\ [][handleZoomIn =>
            zoomLevel' = IF zoomLevel = ZoomCap
                         THEN zoomLevel ELSE zoomLevel + ZoomStep]_vars

\* Zoom-in has just been clicked at 3.0: no preset is 3.0, so only
\* handleZoomIn leads from 3.0 to 3.0.
C26_Witness ==
    /\ zoomBefore = ZoomCap
    /\ zoomLevel = ZoomCap
    /\ zoomEvents = 6

\* ------------------------------------------------------------------ C27
\* C27: whenever an integer pixel size v has been passed to
\* executeCommand('fontSize', v), the HTML size handed to the platform is
\* min(7, max(1, floor(v / 4))), an integer in 1..7 that does not decrease
\* when v grows; and the sizes the select offers, 12, 14, 16, 18, 24, 32,
\* give 3, 3, 4, 4, 6, 7.
C27_HtmlFontSize ==
    /\ fontSizeCommand.value # <<>> =>
          LET v == parseInt(fontSizeCommand.value)
              h == parseInt(fontSizeCommand.htmlSize)
          IN /\ toString(v) = fontSizeCommand.value
             /\ toString(h) = fontSizeCommand.htmlSize
             /\ h \in 1..7
             /\ \/ h = 1 /\ v < 8
                \/ h = 7 /\ v >= 28
                \/ 4 * h <= v /\ v < 4 * (h + 1)
             /\ \A w \in (0 - MaxPixelSize)..MaxPixelSize :
                   w <= v => htmlSizeOf(toString(w)) <= h
    /\ [htmlSize \in DOMAIN sizeOptions |-> htmlSizeOf(sizeOptions[htmlSize])]
          = <<3, 3, 4, 4, 6, 7>>

\* The largest offered size, 32, has been applied: floor(32 / 4) is 8 and
\* the platform got "7".
C27_Witness ==
    /\ editorRef = "div"
    /\ fontSizeCommand = [value |-> <<"3", "2">>, htmlSize |-> <<"7">>]

\* ------------------------------------------------------------------ C28
\* C28: for every action id, loading[id] is true while a call with that id
\* runs and false once the call has settled, whether the action resolved
\* or threw; errors[id] is then the empty string after a success and the
\* error's message, or 'Unknown error', after a failure; the call returns
\* to its caller without throwing; and the entries of other action ids
\* are left unchanged.
C28_AsyncActionBookkeeping ==
    /\ [](\A i \in DOMAIN asyncCalls :
            /\ asyncCalls[i].status = "running" =>
                  /\ asyncCalls[i].actionId \in DOMAIN loading
                  /\ loading[asyncCalls[i].actionId]
            /\ asyncCalls[i].status # "threw")
    /\ [][\A i \in DOMAIN asyncCalls, outcome \in Outcomes :
            handleAsyncActionResume(i, outcome) =>
               LET actionId == asyncCalls[i].actionId
               IN /\ loading'[actionId] = FALSE
                  /\ actionId \in DOMAIN errors'
                  /\ errors'[actionId] =
                        IF outcome.kind = "resolved" THEN ""
                        ELSE IF outcome.reason = "Error" /\ outcome.message # ""
                             THEN outcome.message ELSE "Unknown error"
                  /\ \A other \in ActionIds \ {actionId} :
                        /\ other \in DOMAIN loading' <=> other \in DOMAIN loading
                        /\ other \in DOMAIN loading => loading'[other] = loading[other]
                        /\ other \in DOMAIN errors' <=> other \in DOMAIN errors
                        /\ other \in DOMAIN errors => errors'[other] = errors[other]
          ]_vars

====
